---- MODULE Spec2Model ----
(***************************************************************************)
(* Model of app.py: the Markdown-to-slide-deck converter markdown_to_pptx,  *)
(* the transcription adapter transcribe_audio and the Streamlit script that *)
(* orchestrates one run per press of the run button.                        *)
(*                                                                         *)
(* The text markdown_to_pptx reads is a sequence of one-character strings;  *)
(* the texts the services answer are opaque values.                         *)
(***************************************************************************)
EXTENDS Integers, Sequences, FiniteSets, TLC

\* Largest number of source lines of an outline given to markdown_to_pptx.
MaxLines == 4

\* Largest number of staging files left on disk the model counts.
MaxLeaked == 1

VARIABLES
    \* ---- markdown_to_pptx (one call, line by line) ----
    src,            \* the outline as a sequence of raw lines (what md was joined from)
    md,             \* the md argument: one str, lines separated by "\n"
    lines,          \* the list built at line 144
    idx,            \* position of the for loop in lines (next line to process)
    prs,            \* prs.slides: the slides added so far
    bullet_frame,   \* 0 for None, else the index in prs of the slide owning the frame
    ppc,            \* position of the call: "start", "loop", "returned", "raised"
    saved,          \* what prs.save wrote to output_path (Absent before)
    \* ---- the Streamlit script and transcribe_audio ----
    uploaded_file,  \* NoFile, or the bytes of the upload
    mode,           \* the radio's selection
    pc,             \* "idle" (script finished), or the run's position:
                    \* "stage", "open", "stt", "branch", "gen"
    shown,          \* the messages the last script run rendered
    button,         \* whether the last script run rendered the run button
    error,          \* the exception text st.error shows (None when none)
    download,       \* what st.download_button was handed (NoDownload when none)
    files,          \* the artifact files in the working directory
    tmp_path,       \* NoTmp, or the bytes of the call's staging file on disk
    leaked,         \* staging files on disk whose transcribe_audio call has exited
    transcript,     \* the run's transcript (None before)
    calls,          \* the external calls of the run, in issue order
    run,            \* what the run was triggered with (NoRun when none)
    raised          \* the exception the run raised (None when none)

pvars == <<src, md, lines, idx, prs, bullet_frame, ppc, saved>>

ovars == <<uploaded_file, mode, pc, shown, button, error, download, files,
           tmp_path, leaked, transcript, calls, run, raised>>

vars == <<src, md, lines, idx, prs, bullet_frame, ppc, saved,
          uploaded_file, mode, pc, shown, button, error, download, files,
          tmp_path, leaked, transcript, calls, run, raised>>

\* a file that does not exist
Absent == [absent |-> TRUE]
NL == "\n"

-----------------------------------------------------------------------------
(* str helpers, as Python computes them *)

Whitespace == {" ", "\t"}

RECURSIVE lstrip(_)
lstrip(s) ==
    IF s = <<>> THEN <<>>
    ELSE IF Head(s) \in Whitespace THEN lstrip(Tail(s)) ELSE s

RECURSIVE rstrip(_)
rstrip(s) ==
    IF s = <<>> THEN <<>>
    ELSE IF s[Len(s)] \in Whitespace THEN rstrip(SubSeq(s, 1, Len(s) - 1)) ELSE s

\* l.strip()
strip(s) == rstrip(lstrip(s))

\* s.startswith(p)
startswith(s, p) == Len(s) >= Len(p) /\ SubSeq(s, 1, Len(p)) = p

\* s[n:]
slice_from(s, n) == SubSeq(s, n + 1, Len(s))

RECURSIVE SplitAcc(_, _, _)
SplitAcc(s, cur, acc) ==
    IF s = <<>> THEN (IF cur = <<>> THEN acc ELSE Append(acc, cur))
    ELSE IF Head(s) = NL THEN SplitAcc(Tail(s), <<>>, Append(acc, cur))
    ELSE SplitAcc(Tail(s), Append(cur, Head(s)), acc)

\* md.splitlines()
splitlines(s) == SplitAcc(s, <<>>, <<>>)

\* [l.strip() for l in md.splitlines() if l.strip()]
RECURSIVE StripNonBlank(_)
StripNonBlank(ls) ==
    IF ls = <<>> THEN <<>>
    ELSE IF strip(Head(ls)) /= <<>>
         THEN <<strip(Head(ls))>> \o StripNonBlank(Tail(ls))
         ELSE StripNonBlank(Tail(ls))

ParseLines(m) == StripNonBlank(splitlines(m))

-----------------------------------------------------------------------------
(* The presentation object: a slide is its layout, its title text and the  *)
(* paragraphs of the body placeholder's text frame (<<>> while the code has *)
(* not touched that placeholder).                                           *)

TitleLayout == 0
ContentLayout == 1

\* text_frame.text: the paragraphs' texts joined by "\n"
RECURSIVE FrameText(_)
FrameText(ps) ==
    IF ps = <<>> THEN <<>>
    ELSE IF Len(ps) = 1 THEN ps[1]
    ELSE ps[1] \o <<NL>> \o FrameText(Tail(ps))

\* bullet_frame.clear(): one empty paragraph is left
ClearedFrame == << <<>> >>

\* line.startswith("# ") and not line.startswith("##")
IsTitleLine(line) == startswith(line, <<"#", " ">>) /\ ~startswith(line, <<"#", "#">>)

\* IsSlideLine without the space after the marker
IsSlideLine_Loose(line) == startswith(line, <<"#", "#">>)

\* line.startswith("## ")
IsSlideLine(line) == startswith(line, <<"#", "#", " ">>)

\* line.startswith("- ")
IsBulletLine(line) == startswith(line, <<"-", " ">>)

\* The loop's state is st = [slides, frame]: prs.slides and bullet_frame.

\* TitleBranch that also closes the open content slide
TitleBranch_ResetsFrame(st, line) ==
    [slides |-> Append(st.slides,
                       [layout |-> TitleLayout,
                        title |-> strip(slice_from(line, 2)),
                        body |-> <<>>]),
     frame |-> 0]

\* lines 150-154
TitleBranch(st, line) ==
    [slides |-> Append(st.slides,
                       [layout |-> TitleLayout,
                        title |-> strip(slice_from(line, 2)),
                        body |-> <<>>]),
     frame |-> st.frame]

\* lines 157-164
SlideBranch(st, line) ==
    [slides |-> Append(st.slides,
                       [layout |-> ContentLayout,
                        title |-> strip(slice_from(line, 3)),
                        body |-> ClearedFrame]),
     frame |-> Len(st.slides) + 1]

\* BulletBranch that sets the frame's text for every bullet
BulletBranch_Overwrites(st, line) ==
    LET bullet_text == strip(slice_from(line, 2)) IN
    IF st.frame /= 0
    THEN [st EXCEPT !.slides[st.frame].body = <<bullet_text>>]
    ELSE st

\* BulletBranch that opens a slide for a bullet that has none
BulletBranch_OpensSlide(st, line) ==
    LET bullet_text == strip(slice_from(line, 2)) IN
    IF st.frame /= 0
    THEN IF FrameText(st.slides[st.frame].body) = <<>>
         THEN [st EXCEPT !.slides[st.frame].body = <<bullet_text>>]
         ELSE [st EXCEPT !.slides[st.frame].body = Append(@, bullet_text)]
    ELSE [slides |-> Append(st.slides,
                            [layout |-> ContentLayout,
                             title |-> <<>>,
                             body |-> <<bullet_text>>]),
          frame |-> Len(st.slides) + 1]

\* lines 167-175
BulletBranch(st, line) ==
    LET bullet_text == strip(slice_from(line, 2)) IN
    IF st.frame /= 0
    THEN IF FrameText(st.slides[st.frame].body) = <<>>
         THEN [st EXCEPT !.slides[st.frame].body = <<bullet_text>>]
         ELSE [st EXCEPT !.slides[st.frame].body = Append(@, bullet_text)]
    ELSE st

\* One iteration of the for loop, lines 148-175
LoopBody(st, line) ==
    IF IsTitleLine(line) THEN TitleBranch(st, line)
    ELSE IF IsSlideLine(line) THEN SlideBranch(st, line)
    ELSE IF IsBulletLine(line) THEN BulletBranch(st, line)
    ELSE st

RECURSIVE RunLoop(_, _)
RunLoop(st, ls) ==
    IF ls = <<>> THEN st ELSE RunLoop(LoopBody(st, Head(ls)), Tail(ls))

\* The presentation markdown_to_pptx hands to prs.save, lines 143-175
BuildDeck(m) == RunLoop([slides |-> <<>>, frame |-> 0], ParseLines(m)).slides

-----------------------------------------------------------------------------
(* Inputs of the converter *)

LTitle == <<"#", " ", "T">>
LSlideA == <<"#", "#", " ", "A">>
LBulletB == <<"-", " ", "b">>
LBulletC == <<" ", "-", " ", " ", "c", " ">>
LDeep == <<"#", "#", "#", " ", "x">>
LStar == <<"*", " ", "x">>
LBlank == <<" ">>
LBare == <<"#", "#", " ">>

LineSet ==
    {LTitle, LSlideA, LBulletB, LBulletC, LDeep, LStar, LBlank, LBare}

RECURSIVE JoinLines(_)
JoinLines(ls) ==
    IF ls = <<>> THEN <<>>
    ELSE IF Len(ls) = 1 THEN ls[1]
    ELSE ls[1] \o <<NL>> \o JoinLines(Tail(ls))

Outlines == UNION {[1..n -> LineSet] : n \in 0..MaxLines}

-----------------------------------------------------------------------------
(* The script's values *)

None == "None"
NoFile == "NoFile"
NoTmp == "NoTmp"
NoRun == [norun |-> TRUE]
NoDownload == [nodownload |-> TRUE]
\* what a file holds: text, a saved presentation, or the remains of a failed save
TextFile(t) == [text |-> t]
PptxFile(deck) == [pptx |-> deck]
Partial == [partial |-> TRUE]

\* the options of st.radio, lines 190-194
ModeTranscription == "Retranscription complete"
ModeResume == "Resume + points cles"
ModeSlides == "Generation de slides (PPTX)"
Modes == {ModeTranscription, ModeResume, ModeSlides}

\* the files the branches write, lines 218, 237, 256
TranscriptionTxt == "transcription.txt"
ResumeTxt == "resume_points_cles.txt"
SlidesPptx == "conference_medicale_lilo_mamati.pptx"
Artifacts == {TranscriptionTxt, ResumeTxt, SlidesPptx}

MimeText == "text/plain"
MimePptx == "application/vnd.openxmlformats-officedocument.presentationml.presentation"

\* what the outside world can answer
EmptyAudio == <<>>
Audio == <<"a">>
Uploads == {EmptyAudio, Audio}
Transcripts == {"", "t1"}
Summaries == {"s1", "s2"}
OutlineDocs ==
    {JoinLines(<<LTitle, LSlideA, LBulletB, LBulletC>>),
     JoinLines(<<LBulletB, LTitle>>)}

\* UploadPresent with the test of line 205 lost
UploadPresent_Always(u) == TRUE

\* uploaded_file is not None, line 205
UploadPresent(u) == u /= NoFile

\* BranchOf with the two generation branches exchanged
BranchOf_Swapped(m) ==
    IF m = ModeTranscription THEN "pass"
    ELSE IF m = ModeResume THEN "outline"
    ELSE IF m = ModeSlides THEN "summarize"
    ELSE "none"

\* the if / elif chain on mode, lines 214, 230, 249
BranchOf(m) ==
    IF m = ModeTranscription THEN "pass"
    ELSE IF m = ModeResume THEN "summarize"
    ELSE IF m = ModeSlides THEN "outline"
    ELSE "none"

\* ResumePath with the path of the transcript branch
ResumePath_Pasted == TranscriptionTxt

\* txt_path of the summary branch, line 237
ResumePath == ResumeTxt

-----------------------------------------------------------------------------
(* The script: one run of it per user interaction *)

OrchInit ==
    /\ uploaded_file = NoFile
    /\ mode = ModeTranscription
    /\ pc = "idle"
    /\ shown = {"info"}
    /\ button = FALSE
    /\ error = None
    /\ download = NoDownload
    /\ files = [f \in Artifacts |-> Absent]
    /\ tmp_path = NoTmp
    /\ leaked = 0
    /\ transcript = None
    /\ calls = <<>>
    /\ run = NoRun
    /\ raised = None

\* A script run in which the button was not pressed, lines 183-209 and 274-275:
\* the widgets are drawn again for the upload u, nothing is processed.
Render(u) ==
    /\ pc' = "idle"
    /\ shown' = IF UploadPresent(u) THEN {"success"} ELSE {"info"}
    /\ button' = UploadPresent(u)
    /\ error' = None
    /\ download' = NoDownload
    /\ transcript' = None
    /\ calls' = <<>>
    /\ run' = NoRun
    /\ raised' = None
    /\ UNCHANGED <<files, tmp_path, leaked>>

\* the user drops a file in st.file_uploader, line 183
Upload(u) ==
    /\ pc = "idle"
    /\ uploaded_file' = u
    /\ Render(u)
    /\ UNCHANGED <<mode, pvars>>

\* the user removes the file from st.file_uploader
ClearUpload ==
    /\ pc = "idle"
    /\ uploaded_file /= NoFile
    /\ uploaded_file' = NoFile
    /\ Render(NoFile)
    /\ UNCHANGED <<mode, pvars>>

\* the user picks an option of st.radio, line 188
SelectMode(m) ==
    /\ pc = "idle"
    /\ m /= mode
    /\ mode' = m
    /\ Render(uploaded_file)
    /\ UNCHANGED <<uploaded_file, pvars>>

\* the user presses the button, lines 205-212: the script runs again and, with
\* an upload, enters the try block and calls transcribe_audio
ClickRun ==
    /\ pc = "idle"
    /\ button
    /\ IF UploadPresent(uploaded_file)
       THEN /\ pc' = "stage"
            /\ shown' = {"success"}
            /\ button' = TRUE
            /\ error' = None
            /\ download' = NoDownload
            /\ transcript' = None
            /\ calls' = <<>>
            /\ run' = [mode |-> mode, upload |-> uploaded_file, files |-> files]
            /\ raised' = None
            /\ UNCHANGED <<files, tmp_path, leaked>>
       ELSE Render(uploaded_file)
    /\ UNCHANGED <<uploaded_file, mode, pvars>>

\* ExceptHandler that shows nothing
ExceptHandler_Silent(e) ==
    /\ pc' = "idle"
    /\ shown' = {"success"}
    /\ error' = None
    /\ download' = NoDownload
    /\ UNCHANGED <<uploaded_file, mode, button, run>>

\* except Exception as e, lines 271-273
ExceptHandler(e) ==
    /\ pc' = "idle"
    /\ shown' = {"success", "error", "info_retry"}
    /\ error' = e
    /\ download' = NoDownload
    /\ UNCHANGED <<uploaded_file, mode, button, run>>

\* an exception e leaves the try block
Raise(e) ==
    /\ raised' = e
    /\ ExceptHandler(e)

\* transcribe_audio, lines 47-50: the staging file is created, written and closed
Stage ==
    /\ pc = "stage"
    /\ IF uploaded_file = NoFile
       THEN /\ Raise("AttributeError")
            /\ UNCHANGED <<tmp_path, leaked>>
       ELSE /\ tmp_path' = uploaded_file
            /\ pc' = "open"
            /\ UNCHANGED <<shown, error, download, raised, leaked,
                           uploaded_file, mode, button, run>>
    /\ UNCHANGED <<files, transcript, calls, pvars>>

\* line 48 raises: no staging file was created
StageCreateFails ==
    /\ pc = "stage"
    /\ Raise("tempfile")
    /\ UNCHANGED <<files, tmp_path, leaked, transcript, calls, pvars>>

\* line 49 raises (reading the upload or writing the file): the with block
\* closes the file, which delete=False keeps, and the exception leaves
\* transcribe_audio before the try of line 52
StageWriteFails ==
    /\ pc = "stage"
    /\ uploaded_file /= NoFile
    /\ leaked < MaxLeaked
    /\ leaked' = leaked + 1
    /\ Raise("write")
    /\ UNCHANGED <<files, tmp_path, transcript, calls, pvars>>

\* line 53 raises: the finally block removes the staging file
OpenFails ==
    /\ pc = "open"
    /\ tmp_path' = NoTmp
    /\ Raise("open")
    /\ UNCHANGED <<files, leaked, transcript, calls, pvars>>

\* lines 53-58: the speech-to-text call is issued with the staging file
IssueTranscription ==
    /\ pc = "open"
    /\ calls' = Append(calls, [svc |-> "stt", arg |-> tmp_path, st |-> "inflight",
                               result |-> None])
    /\ pc' = "stt"
    /\ UNCHANGED <<uploaded_file, mode, shown, button, error, download, files,
                   tmp_path, leaked, transcript, run, raised, pvars>>

\* lines 59-65: the call answers t; the finally block removes the staging file
TranscriptionReturns(t) ==
    /\ pc = "stt"
    /\ calls' = [calls EXCEPT ![Len(calls)].st = "ok", ![Len(calls)].result = t]
    /\ transcript' = t
    /\ tmp_path' = NoTmp
    /\ pc' = "branch"
    /\ UNCHANGED <<uploaded_file, mode, shown, button, error, download, files,
                   leaked, run, raised, pvars>>

\* lines 54-63: the call raises; the finally block removes the staging file
TranscriptionFails ==
    /\ pc = "stt"
    /\ calls' = [calls EXCEPT ![Len(calls)].st = "failed"]
    /\ tmp_path' = NoTmp
    /\ Raise("stt")
    /\ UNCHANGED <<files, leaked, transcript, pvars>>

\* the run ends with the artifact at path handed to st.download_button
Deliver(path, data, mime) ==
    /\ files' = [files EXCEPT ![path] = data]
    /\ download' = [file_name |-> path, data |-> data, mime |-> mime]
    /\ shown' = {"success", "result"}
    /\ pc' = "idle"
    /\ UNCHANGED <<uploaded_file, mode, button, error, run, raised>>

\* writing path raises: the file is as it was, or was truncated by open(.., "w")
WriteFails(path, left) ==
    /\ files' = [files EXCEPT ![path] = left]
    /\ Raise("io")

\* lines 214-228: the transcript is written and handed over
PassThrough ==
    /\ pc = "branch"
    /\ BranchOf(mode) = "pass"
    /\ \/ Deliver(TranscriptionTxt, TextFile(transcript), MimeText)
       \/ \E left \in {files[TranscriptionTxt], TextFile("")} :
              WriteFails(TranscriptionTxt, left)
    /\ UNCHANGED <<tmp_path, leaked, transcript, calls, pvars>>

\* line 232 or 251: the text-generation call is issued with the branch's prompt
IssueGeneration ==
    /\ pc = "branch"
    /\ BranchOf(mode) \in {"summarize", "outline"}
    /\ calls' = Append(calls, [svc |-> "gen",
                               arg |-> [template |-> BranchOf(mode),
                                        transcript |-> transcript],
                               st |-> "inflight", result |-> None])
    /\ pc' = "gen"
    /\ UNCHANGED <<uploaded_file, mode, shown, button, error, download, files,
                   tmp_path, leaked, transcript, run, raised, pvars>>

\* lines 232-247: the summary arrives, is written and handed over
SummaryReturns(summary) ==
    /\ pc = "gen"
    /\ calls[Len(calls)].arg.template = "summarize"
    /\ calls' = [calls EXCEPT ![Len(calls)].st = "ok", ![Len(calls)].result = summary]
    /\ \/ Deliver(ResumePath, TextFile(summary), MimeText)
       \/ \E left \in {files[ResumePath], TextFile("")} : WriteFails(ResumePath, left)
    /\ UNCHANGED <<tmp_path, leaked, transcript, pvars>>

\* lines 251-269: the outline arrives, markdown_to_pptx builds and saves the
\* deck (or its save raises), and the file is handed over
OutlineReturns(slides_md) ==
    /\ pc = "gen"
    /\ calls[Len(calls)].arg.template = "outline"
    /\ calls' = [calls EXCEPT ![Len(calls)].st = "ok", ![Len(calls)].result = slides_md]
    /\ \/ Deliver(SlidesPptx, PptxFile(BuildDeck(slides_md)), MimePptx)
       \/ \E left \in {files[SlidesPptx], Partial} : WriteFails(SlidesPptx, left)
    /\ UNCHANGED <<tmp_path, leaked, transcript, pvars>>

\* line 232 or 251: the text-generation call raises
GenerationFails ==
    /\ pc = "gen"
    /\ calls' = [calls EXCEPT ![Len(calls)].st = "failed"]
    /\ Raise("gen")
    /\ UNCHANGED <<files, tmp_path, leaked, transcript, pvars>>

ParserUnused ==
    /\ src = <<>>
    /\ md = <<>>
    /\ lines = <<>>
    /\ idx = 1
    /\ prs = <<>>
    /\ bullet_frame = 0
    /\ ppc = "unused"
    /\ saved = Absent

Init == OrchInit /\ ParserUnused

Next ==
    \/ \E u \in Uploads : Upload(u)
    \/ ClearUpload
    \/ \E m \in Modes : SelectMode(m)
    \/ ClickRun
    \/ Stage
    \/ StageCreateFails
    \/ StageWriteFails
    \/ OpenFails
    \/ IssueTranscription
    \/ \E t \in Transcripts : TranscriptionReturns(t)
    \/ TranscriptionFails
    \/ PassThrough
    \/ IssueGeneration
    \/ \E s \in Summaries : SummaryReturns(s)
    \/ \E o \in OutlineDocs : OutlineReturns(o)
    \/ GenerationFails

Spec == Init /\ [][Next]_vars

-----------------------------------------------------------------------------
(* markdown_to_pptx, one step per loop iteration *)

ParseInit ==
    /\ src \in Outlines
    /\ md = JoinLines(src)
    /\ lines = <<>>
    /\ idx = 1
    /\ prs = <<>>
    /\ bullet_frame = 0
    /\ ppc = "start"
    /\ saved = Absent
    /\ OrchInit

\* lines 143-146
PBegin ==
    /\ ppc = "start"
    /\ lines' = ParseLines(md)
    /\ prs' = <<>>
    /\ bullet_frame' = 0
    /\ idx' = 1
    /\ ppc' = "loop"
    /\ UNCHANGED <<src, md, saved, ovars>>

LoopStep(line) ==
    LET st == LoopBody([slides |-> prs, frame |-> bullet_frame], line) IN
    /\ prs' = st.slides
    /\ bullet_frame' = st.frame
    /\ idx' = idx + 1
    /\ UNCHANGED <<src, md, lines, ppc, saved, ovars>>

AtLine == ppc = "loop" /\ idx <= Len(lines)

\* lines 150-154
PTitle == AtLine /\ IsTitleLine(lines[idx]) /\ LoopStep(lines[idx])

\* lines 157-164
PSlide == AtLine /\ IsSlideLine(lines[idx]) /\ LoopStep(lines[idx])

\* lines 167-175
PBullet == AtLine /\ IsBulletLine(lines[idx]) /\ LoopStep(lines[idx])

\* a line no branch takes: the loop goes on to the next one
POther ==
    /\ AtLine
    /\ ~IsTitleLine(lines[idx]) /\ ~IsSlideLine(lines[idx]) /\ ~IsBulletLine(lines[idx])
    /\ LoopStep(lines[idx])

\* line 177, prs.save succeeds
PSave ==
    /\ ppc = "loop" /\ idx > Len(lines)
    /\ saved' = prs
    /\ ppc' = "returned"
    /\ UNCHANGED <<src, md, lines, idx, prs, bullet_frame, ovars>>

\* line 177, prs.save raises (I/O failure)
PSaveFails ==
    /\ ppc = "loop" /\ idx > Len(lines)
    /\ ppc' = "raised"
    /\ UNCHANGED <<src, md, lines, idx, prs, bullet_frame, saved, ovars>>

ParseNext ==
    \/ PBegin
    \/ PTitle
    \/ PSlide
    \/ PBullet
    \/ POther
    \/ PSave
    \/ PSaveFails

ParseSpec == ParseInit /\ [][ParseNext]_vars

-----------------------------------------------------------------------------
(* The outline as the grammar reads it: the source lines trimmed, blank     *)
(* lines discarded.                                                         *)

NonBlank(l) == l /= <<>>

Doc == SelectSeq([k \in 1..Len(src) |-> strip(src[k])], NonBlank)

\* a line beginning with exactly one # followed by a space
Hash1(l) == Len(l) >= 2 /\ l[1] = "#" /\ l[2] = " "

\* a line beginning with ## followed by a space
Hash2(l) == Len(l) >= 3 /\ l[1] = "#" /\ l[2] = "#" /\ l[3] = " "

\* a line beginning with "- "
Dash(l) == Len(l) >= 2 /\ l[1] = "-" /\ l[2] = " "

Heading(l) == Hash1(l) \/ Hash2(l)

OtherLine(l) == ~Hash1(l) /\ ~Hash2(l) /\ ~Dash(l)

\* the text of a line after its marker of n characters
Rest(l, n) == strip(SubSeq(l, n + 1, Len(l)))

\* the lines of d the loop has consumed
Done == SubSeq(Doc, 1, idx - 1)

SlidePos(d) == {k \in 1..Len(d) : Hash2(d[k])}

\* position in d of the next "## " line after k, Len(d) + 1 when there is none
NextSlidePos(d, k) ==
    LET after == {i \in SlidePos(d) : i > k} IN
    IF after = {} THEN Len(d) + 1
    ELSE CHOOSE i \in after : \A o \in after : i <= o

\* the bullets written between the "## " line at k and the next "## " line
BulletsUnder(d, k) ==
    LET bl == SelectSeq(SubSeq(d, k + 1, NextSlidePos(d, k) - 1), Dash) IN
    [i \in 1..Len(bl) |-> Rest(bl[i], 2)]

\* index in the deck of the slide made from the heading line at k
DeckIdx(d, k) == Cardinality({i \in 1..k : Heading(d[i])})

\* the body of a content slide holding the bullets bs
BodyOf(bs) == IF bs = <<>> THEN << <<>> >> ELSE bs

\* the slide the last "## " line of d opened, 0 when d has none
OpenSlide(d) ==
    IF SlidePos(d) = {} THEN 0
    ELSE DeckIdx(d, CHOOSE k \in SlidePos(d) : \A o \in SlidePos(d) : o <= k)

LoopRunning == ppc \in {"loop", "returned", "raised"}

WellFormed(d) ==
    /\ Len(d) >= 2
    /\ Hash1(d[1])
    /\ Hash2(d[2])
    /\ \A k \in 3..Len(d) : Hash2(d[k]) \/ Dash(d[k])

\* C1: a well-formed outline (one "# " line, then one or more "## " lines each
\* followed by zero or more "- " lines) gives a saved deck of 1 + (number of
\* "## " lines) slides, the first the title slide, and every content slide
\* holds exactly the "- " lines under its heading, in source order, the first
\* as the frame's first paragraph and the later ones as appended paragraphs.
C1_WellFormedDeck ==
    (ppc = "returned" /\ WellFormed(Doc)) =>
        /\ Len(saved) = 1 + Cardinality(SlidePos(Doc))
        /\ saved[1] = [layout |-> 0, title |-> Rest(Doc[1], 2), body |-> <<>>]
        /\ \A k \in SlidePos(Doc) :
              saved[DeckIdx(Doc, k)] =
                  [layout |-> 1,
                   title |-> Rest(Doc[k], 3),
                   body |-> BodyOf(BulletsUnder(Doc, k))]

C1_Witness ==
    /\ ppc = "returned"
    /\ WellFormed(Doc)
    /\ \E j \in 1..Len(saved) : Len(saved[j].body) >= 2

ScenarioB == <<LBulletB, LTitle>>

\* C5: while no "## " line has been read, a "- " line is dropped: the slides
\* built so far are exactly the title slides of the "# " lines read, none has
\* a bullet, no content slide is open and nothing was raised; the outline
\* "- b", "# T" is saved as the single title slide "T".
C5_OrphanBulletDropped ==
    /\ (LoopRunning /\ SlidePos(Done) = {}) =>
          /\ Len(prs) = Cardinality({k \in 1..Len(Done) : Hash1(Done[k])})
          /\ \A j \in 1..Len(prs) : prs[j].layout = 0 /\ prs[j].body = <<>>
          /\ bullet_frame = 0
          /\ (ppc = "raised" => idx > Len(Doc))
    /\ (ppc = "returned" /\ src = ScenarioB) =>
          saved = << [layout |-> 0, title |-> <<"T">>, body |-> <<>>] >>

C5_Witness ==
    /\ ppc = "returned"
    /\ src = ScenarioB
    /\ Len(saved) = 1

\* the number of bullets the slides of a deck hold
RECURSIVE BulletCount(_)
BulletCount(deck) ==
    IF deck = <<>> THEN 0
    ELSE Len(SelectSeq(Head(deck).body, NonBlank)) + BulletCount(Tail(deck))

\* C6: for every input, at every point of the loop the slides are exactly the
\* heading lines read so far, in document order ("# " a title slide, "## " a
\* content slide); every other line adds no slide and no bullet, leaves the
\* open content slide as the last "## " line set it, and raises nothing (the
\* call raises only from the save, after the last line).
C6_DeckIsHeadingsInOrder ==
    LoopRunning =>
        LET h == SelectSeq(Done, Heading) IN
        /\ Len(prs) = Len(h)
        /\ \A i \in 1..Len(h) :
              /\ prs[i].layout = (IF Hash1(h[i]) THEN 0 ELSE 1)
              /\ prs[i].title = (IF Hash1(h[i]) THEN Rest(h[i], 2) ELSE Rest(h[i], 3))
        /\ BulletCount(prs) =
              Cardinality({k \in 1..Len(Done) :
                              Dash(Done[k]) /\ \E i \in SlidePos(Done) : i < k})
        /\ bullet_frame = OpenSlide(Done)
        /\ (ppc = "raised" => idx > Len(Doc))
        /\ (ppc = "returned" => saved = prs)

C6_Witness ==
    /\ ppc = "returned"
    /\ \E k \in 2..(Len(Doc) - 1) :
          Hash2(Doc[k - 1]) /\ OtherLine(Doc[k]) /\ Dash(Doc[k + 1])
    /\ Len(saved) >= 1
    /\ BulletCount(saved) >= 1

\* C10: a "# " line never changes the open content slide: every title slide
\* has an untouched body, the open frame always belongs to a content slide,
\* and a content slide holds the "- " lines between its "## " line and the
\* next "## " line, "# " lines in between notwithstanding.
C10_TitleKeepsOpenSlide ==
    LoopRunning =>
        /\ \A j \in 1..Len(prs) : prs[j].layout = 0 => prs[j].body = <<>>
        /\ bullet_frame /= 0 => prs[bullet_frame].layout = 1
        /\ \A k \in SlidePos(Done) :
              prs[DeckIdx(Done, k)].body = BodyOf(BulletsUnder(Done, k))

C10_Witness ==
    /\ ppc = "returned"
    /\ \E k \in 2..(Len(Doc) - 1) :
          /\ Hash2(Doc[k - 1]) /\ Hash1(Doc[k]) /\ Dash(Doc[k + 1])
          /\ saved[DeckIdx(Doc, k - 1)].body = <<Rest(Doc[k + 1], 2)>>
          /\ saved[DeckIdx(Doc, k)].body = <<>>

-----------------------------------------------------------------------------
(* The run as the user and the outside world see it *)

\* the run ended in Failed: an exception left the try block
Failed == raised /= None

\* the run ended in Done: an artifact was handed to the download collaborator
Handed == download /= NoDownload

\* the artifact file of each mode
ModeArtifact(m) ==
    IF m = "Retranscription complete" THEN "transcription.txt"
    ELSE IF m = "Resume + points cles" THEN "resume_points_cles.txt"
    ELSE "conference_medicale_lilo_mamati.pptx"

CallsTo(svc) == {i \in 1..Len(calls) : calls[i].svc = svc}

\* C2: whenever transcribe_audio has returned or raised, no staging file that
\* the call created is still on disk.
C2_StagingFileDeletedOnEveryExit ==
    /\ leaked = 0
    /\ pc \notin {"open", "stt"} => tmp_path = NoTmp

\* C3: in every run the transcription call is the first call and has answered
\* before anything else happens; at most one text-generation call follows it,
\* the one of the mode selected at trigger time, given that run's transcript;
\* pass-through issues none; a finished run handed over the selected mode's
\* artifact; no two calls are in flight together.
C3_TranscriptionThenOneBranch ==
    run /= NoRun =>
        /\ Len(calls) <= 2
        /\ Len(calls) >= 1 => calls[1].svc = "stt"
        /\ Len(calls) = 2 =>
              /\ calls[1].st = "ok"
              /\ calls[2].svc = "gen"
              /\ run.mode /= "Retranscription complete"
              /\ calls[2].arg.template =
                    (IF run.mode = "Resume + points cles" THEN "summarize" ELSE "outline")
              /\ calls[2].arg.transcript = calls[1].result
        /\ pc \in {"branch", "gen"} => (Len(calls) >= 1 /\ calls[1].st = "ok")
        /\ files /= run.files => (Len(calls) >= 1 /\ calls[1].st = "ok")
        /\ Cardinality({i \in 1..Len(calls) : calls[i].st = "inflight"}) <= 1
        /\ Handed =>
              /\ download.file_name = ModeArtifact(run.mode)
              /\ Len(calls) = (IF run.mode = "Retranscription complete" THEN 1 ELSE 2)
              /\ \A i \in 1..Len(calls) : calls[i].st = "ok"

C3_Witness ==
    /\ run /= NoRun
    /\ run.mode = "Generation de slides (PPTX)"
    /\ Handed
    /\ Len(calls) = 2

\* C4: a failure of a call or of a write (the presentation's save included)
\* ends the run in Failed: the exception's message is shown, nothing later of
\* the run is done (no call after the failed one, no generation call and no
\* artifact after a failed transcription, no download handed over), no call
\* is issued twice, and the upload and the run button are still there.
C4_FailureEndsRunInFailed ==
    /\ (\E i \in 1..Len(calls) : calls[i].st = "failed") => Failed
    /\ Failed =>
          /\ pc = "idle"
          /\ "error" \in shown
          /\ error = raised
          /\ ~Handed
          /\ \A i \in 1..Len(calls) :
                /\ calls[i].st /= "inflight"
                /\ calls[i].st = "failed" => i = Len(calls)
          /\ Cardinality(CallsTo("stt")) <= 1
          /\ Cardinality(CallsTo("gen")) <= 1
          /\ raised \in {"tempfile", "write", "open", "stt"} =>
                (CallsTo("gen") = {} /\ files = run.files)
          /\ uploaded_file = run.upload
          /\ uploaded_file /= NoFile
          /\ button

C4_Witness ==
    /\ Failed
    /\ raised = "io"
    /\ run.mode = "Generation de slides (PPTX)"
    /\ Len(calls) = 2
    /\ calls[2].st = "ok"
    /\ "error" \in shown

\* C7: a run in mode M changes no artifact file but the one of mode M, and
\* the artifact it hands over is made of that run's own transcript or
\* generation result alone.
C7_ArtifactsIndependent ==
    run /= NoRun =>
        /\ \A f \in Artifacts :
              f /= ModeArtifact(run.mode) => files[f] = run.files[f]
        /\ Handed =>
              /\ download.file_name = ModeArtifact(run.mode)
              /\ download.data = files[ModeArtifact(run.mode)]
              /\ run.mode = "Retranscription complete" =>
                    download.data = [text |-> calls[1].result]
              /\ run.mode = "Resume + points cles" =>
                    download.data = [text |-> calls[2].result]
              /\ run.mode = "Generation de slides (PPTX)" =>
                    download.data = [pptx |-> BuildDeck(calls[2].result)]

C7_Witness ==
    /\ run /= NoRun
    /\ run.mode = "Generation de slides (PPTX)"
    /\ Handed
    /\ run.files["transcription.txt"] /= Absent
    /\ files["transcription.txt"] = run.files["transcription.txt"]
    /\ files["conference_medicale_lilo_mamati.pptx"] /= run.files["conference_medicale_lilo_mamati.pptx"]

\* C8: given an empty byte payload the transcription adapter fails before any
\* network call is made, and the failure is shown to the user.
C8_EmptyPayloadFailsBeforeCall ==
    /\ \A i \in CallsTo("stt") : calls[i].arg /= <<>>
    /\ (run /= NoRun /\ pc = "idle" /\ run.upload = <<>>) =>
          (Failed /\ "error" \in shown)

\* C9: without an upload the run button is not offered, nothing is being
\* processed, no call was issued, and what is shown is the informational
\* message, not an error; every call belongs to a run triggered with an upload.
C9_NoUploadNoCall ==
    /\ button => uploaded_file /= NoFile
    /\ uploaded_file = NoFile =>
          /\ pc = "idle"
          /\ shown = {"info"}
          /\ error = None
          /\ calls = <<>>
    /\ (calls /= <<>> \/ pc /= "idle") => (run /= NoRun /\ run.upload /= NoFile)

C9_Witness ==
    /\ uploaded_file = NoFile
    /\ ~button
    /\ shown = {"info"}
    /\ files["transcription.txt"] /= Absent

====
